---- MODULE Spec2Model ----
(***************************************************************************)
(* Kanji Knowledge Engine of kanji-reader.                                 *)
(*                                                                         *)
(* The model covers the SQLite-backed KanjiDatabaseService (table "kanji", *)
(* its seeding transaction and the times_seen counter) and the             *)
(* JapaneseTextProcessor that analyses a text and updates the knowledge    *)
(* bank.  Every await of the source is a step of its own, so that calls    *)
(* overlap the way promises on one JavaScript event loop do.               *)
(***************************************************************************)
EXTENDS Integers, Sequences, FiniteSets, TLC

\* ------------------------------------------------------------------------
\* Characters, written as their UTF-16 code units.
\* ------------------------------------------------------------------------
Nichi == 26085
Gaku == 23398
Hon == 26412
Ha == 12399

\* /[一-龯]/ of extractKanjiCharacters
KanjiLo == 19968
KanjiHi == 40879
\* /[぀-ゟ]/ of calculateTextStats
HiraganaLo == 12352
HiraganaHi == 12447
\* /[゠-ヿ]/ of calculateTextStats
KatakanaLo == 12448
KatakanaHi == 12543

isKanji(c) == c >= KanjiLo /\ c <= KanjiHi
isHiragana(c) == c >= HiraganaLo /\ c <= HiraganaHi
isKatakana(c) == c >= KatakanaLo /\ c <= KatakanaHi

\* ------------------------------------------------------------------------
\* Bounds of the model.
\* ------------------------------------------------------------------------
MaxInits == 2
MaxCalls == 2
MaxTextLen == 2
MaxAnalyses == 2
MaxBatches == 1

InitIds == 1..MaxInits
UpdIds == 1..MaxCalls

\* The characters the store is asked about.  Nichi and Gaku are records of
\* the bundled dataset, Hon is a kanji the dataset does not hold.
Chars == {Nichi, Gaku, Hon}

\* The bundled dataset kanji.json (kanjiData.kanji), in file order.  The
\* frequency column is TEXT; "" stands for a record without one.
kanjiData ==
  << [character |-> Nichi, meanings |-> <<"day", "sun">>,
      frequency |-> "very common", timesSeen |-> 0],
     [character |-> Gaku, meanings |-> <<"study">>,
      frequency |-> "", timesSeen |-> 0] >>

DatasetChars == {kanjiData[k].character : k \in 1..Len(kanjiData)}

\* No row of table kanji for a character.
NULL == -1

VARIABLES
  db,        \* this.db is set (openDatabaseAsync has resolved)
  tables,    \* table kanji exists
  kanji,     \* table kanji: character -> times_seen, NULL when no row
  txn,       \* a BEGIN is open on the connection
  saved,     \* table kanji as of that BEGIN, what ROLLBACK restores
  init,      \* the initialize() calls
  upd,       \* the updateKanjiTimesSeen() calls of the screens, by number
  lastUpd,   \* how the updateKanjiTimesSeen() call that ended last ended
  calls,     \* number of updateKanjiTimesSeen() calls issued
  okCalls,   \* per character, calls that returned without throwing
  prior,     \* times seen of each character in the initial state
  linked,    \* the processor's calls into the service resolve to a method
  cleanedText, \* the text the analysis screen holds
  an,        \* the analyzeText() call
  results,   \* the TextAnalysisResults returned so far
  fresh,     \* per result: its call came after an updateKnowledgeBank returned
  kb,        \* the updateKnowledgeBank() call
  request,   \* the argument of a call of a function that keeps no state
  response,  \* what that call returned
  catalog,   \* the rows of table kanji with the columns searchKanji reads
  database,  \* AsyncKanjiService: this.database
  storage,   \* AsyncKanjiService: the AsyncStorage item kanji_database_v1
  ainit,     \* AsyncKanjiService: the initialize() calls
  hook,      \* useDatabase: its state and its initializeDatabase() calls
  ocr        \* ImageAnalysisScreen: its state and its performOCR() run

storeVars == <<db, tables, kanji, txn, saved>>
screenVars == <<init, upd, lastUpd, calls, okCalls, prior>>
procVars == <<linked, cleanedText, an, results, fresh, kb>>
hostVars == <<database, storage, ainit, hook, ocr>>
pureVars == <<request, response, catalog, hostVars>>
vars == <<db, tables, kanji, txn, saved, init, upd, lastUpd, calls, okCalls,
          prior, linked, cleanedText, an, results, fresh, kb, request,
          response, catalog, database, storage, ainit, hook, ocr>>

\* times-seen of a character as a reader of the store sees it: the column
\* of its row, 0 when there is no row (getKanji: result.times_seen || 0).
TimesSeen(tbl, c) == IF tbl[c] = NULL THEN 0 ELSE tbl[c]

\* ------------------------------------------------------------------------
\* SQL statements as functions of table kanji.
\* ------------------------------------------------------------------------

\* UPDATE kanji SET times_seen = times_seen + 1 ... WHERE character = ?
\* without the WHERE clause
SqlUpdateTimesSeenAllRows(tbl, c) ==
  [d \in Chars |-> IF tbl[d] = NULL THEN NULL ELSE tbl[d] + 1]

\* UPDATE kanji SET times_seen = times_seen + 1, updated_at = ...
\*   WHERE character = ?
SqlUpdateTimesSeen(tbl, c) ==
  [tbl EXCEPT ![c] = IF @ = NULL THEN NULL ELSE @ + 1]

\* INSERT OR IGNORE INTO kanji (...) VALUES (..., kanji.timesSeen || 0)
SqlInsertOrIgnore(tbl, rec) ==
  [tbl EXCEPT ![rec.character] = IF @ = NULL THEN rec.timesSeen ELSE @]

\* SELECT COUNT(*) as kanji_count FROM kanji
SqlCount(tbl) == Cardinality({c \in Chars : tbl[c] # NULL})

\* a getDatabaseStats that answers with the number of records the import
\* wrote to database_metadata (total_imported)
getDatabaseStatsFromMetadata(tbl) ==
  [totalKanji |-> Len(kanjiData), totalRadicals |-> 0,
   databaseVersion |-> "2.0.0"]

\* getDatabaseStats(): SELECT COUNT(*) as kanji_count FROM kanji;
\* totalKanji: kanjiCount, totalRadicals: 0, databaseVersion: DB_VERSION
getDatabaseStats(tbl) ==
  [totalKanji |-> SqlCount(tbl), totalRadicals |-> 0,
   databaseVersion |-> "2.0.0"]

\* ------------------------------------------------------------------------
\* initialize(): open, createTables, checkAndSeedDatabase.
\* ------------------------------------------------------------------------
InitPcs == {"idle", "open", "create", "stats", "begin", "insert", "meta",
            "commit", "rollback", "done", "failed"}

\* calls are numbered in the order in which they are issued
initialize_call(i) ==
  /\ init[i].pc = "idle"
  /\ \A j \in InitIds : j < i => init[j].pc # "idle"
  /\ init' = [init EXCEPT ![i].pc = "open"]
  /\ UNCHANGED <<storeVars, upd, lastUpd, calls, okCalls,
                 prior, procVars, pureVars>>

\* this.db = await SQLite.openDatabaseAsync(this.DB_NAME)
initialize_open(i) ==
  /\ init[i].pc = "open"
  /\ \E ok \in BOOLEAN :
       IF ok
       THEN /\ db' = TRUE
            /\ init' = [init EXCEPT ![i].pc = "create"]
       ELSE /\ db' = db
            /\ init' = [init EXCEPT ![i].pc = "failed"]
  /\ UNCHANGED <<tables, kanji, txn, saved, upd, lastUpd, calls, okCalls,
                 prior, procVars, pureVars>>

\* CREATE TABLE IF NOT EXISTS kanji / user_kanji_knowledge / database_metadata
createTables(i) ==
  /\ init[i].pc = "create"
  /\ \E ok \in BOOLEAN :
       IF ok
       THEN /\ tables' = TRUE
            /\ init' = [init EXCEPT ![i].pc = "stats"]
       ELSE /\ tables' = tables
            /\ init' = [init EXCEPT ![i].pc = "failed"]
  /\ UNCHANGED <<db, kanji, txn, saved, upd, lastUpd, calls, okCalls,
                 prior, procVars, pureVars>>

\* a checkAndSeedDatabase that empties a catalog it finds seeded
checkAndSeedDatabaseClearing(i) ==
  /\ init[i].pc = "stats"
  /\ \E ok \in BOOLEAN :
       IF ok /\ tables
       THEN /\ init' = [init EXCEPT
                          ![i].pc = IF getDatabaseStats(kanji).totalKanji = 0
                                    THEN "begin"
                                    ELSE "done"]
            /\ kanji' = [c \in Chars |-> NULL]
       ELSE /\ init' = [init EXCEPT ![i].pc = "failed"]
            /\ kanji' = kanji
  /\ UNCHANGED <<db, tables, txn, saved, upd, lastUpd, calls, okCalls,
                 prior, procVars, pureVars>>

\* const stats = await this.getDatabaseStats(); if (stats.totalKanji === 0)
checkAndSeedDatabase(i) ==
  /\ init[i].pc = "stats"
  /\ \E ok \in BOOLEAN :
       IF ok /\ tables
       THEN init' = [init EXCEPT
                       ![i].pc = IF getDatabaseStats(kanji).totalKanji = 0
                                    THEN "begin"
                                 ELSE "done"]
       ELSE init' = [init EXCEPT ![i].pc = "failed"]
  /\ UNCHANGED <<storeVars, upd, lastUpd, calls, okCalls,
                 prior, procVars, pureVars>>

\* withTransactionAsync: await this.execAsync('BEGIN').  BEGIN inside an
\* open transaction of the connection is an SQLite error.
importKanjiJsonData_begin(i) ==
  /\ init[i].pc = "begin"
  /\ \E ok \in BOOLEAN :
       IF ok /\ ~txn
       THEN /\ txn' = TRUE
            /\ saved' = kanji
            /\ init' = [init EXCEPT ![i].pc = "insert", ![i].k = 1]
       ELSE /\ UNCHANGED <<txn, saved>>
            /\ init' = [init EXCEPT ![i].pc = "rollback"]
  /\ UNCHANGED <<db, tables, kanji, upd, lastUpd, calls, okCalls,
                 prior, procVars, pureVars>>

\* for (const kanji of kanjiData.kanji) await this.db!.runAsync(INSERT ...)
importKanjiJsonData_insert(i) ==
  /\ init[i].pc = "insert"
  /\ \E ok \in BOOLEAN :
       IF ok /\ tables
       THEN /\ kanji' = SqlInsertOrIgnore(kanji, kanjiData[init[i].k])
            /\ init' = [init EXCEPT
                          ![i].pc = IF init[i].k = Len(kanjiData) THEN "meta"
                                    ELSE "insert",
                          ![i].k = IF init[i].k = Len(kanjiData) THEN 1
                                   ELSE @ + 1]
       ELSE /\ kanji' = kanji
            /\ init' = [init EXCEPT ![i].pc = "rollback", ![i].k = 1]
  /\ UNCHANGED <<db, tables, txn, saved, upd, lastUpd, calls, okCalls,
                 prior, procVars, pureVars>>

\* the four INSERT OR REPLACE INTO database_metadata
importKanjiJsonData_meta(i) ==
  /\ init[i].pc = "meta"
  /\ \E ok \in BOOLEAN :
       init' = [init EXCEPT ![i].pc = IF ok /\ tables THEN "commit"
                                      ELSE "rollback"]
  /\ UNCHANGED <<storeVars, upd, lastUpd, calls, okCalls,
                 prior, procVars, pureVars>>

\* withTransactionAsync: await this.execAsync('COMMIT').  COMMIT with no
\* open transaction is an SQLite error.
importKanjiJsonData_commit(i) ==
  /\ init[i].pc = "commit"
  /\ \E ok \in BOOLEAN :
       IF ok /\ txn
       THEN /\ txn' = FALSE
            /\ init' = [init EXCEPT ![i].pc = "done"]
       ELSE /\ txn' = txn
            /\ init' = [init EXCEPT ![i].pc = "rollback"]
  /\ UNCHANGED <<db, tables, kanji, saved, upd, lastUpd, calls, okCalls,
                 prior, procVars, pureVars>>

\* withTransactionAsync: catch (e) { await this.execAsync('ROLLBACK');
\* throw e }.  ROLLBACK undoes every statement the connection ran since
\* BEGIN, whichever call issued it; the error reaches initialize's caller.
importKanjiJsonData_rollback(i) ==
  /\ init[i].pc = "rollback"
  /\ IF txn
     THEN /\ kanji' = saved
          /\ txn' = FALSE
     ELSE UNCHANGED <<kanji, txn>>
  /\ init' = [init EXCEPT ![i].pc = "failed"]
  /\ UNCHANGED <<db, tables, saved, upd, lastUpd, calls, okCalls,
                 prior, procVars, pureVars>>

initialize(i) ==
  \/ initialize_call(i)
  \/ initialize_open(i)
  \/ createTables(i)
  \/ checkAndSeedDatabase(i)
  \/ importKanjiJsonData_begin(i)
  \/ importKanjiJsonData_insert(i)
  \/ importKanjiJsonData_meta(i)
  \/ importKanjiJsonData_commit(i)
  \/ importKanjiJsonData_rollback(i)

\* ------------------------------------------------------------------------
\* updateKanjiTimesSeen(character), the recordEncounter of the store.
\* ------------------------------------------------------------------------

\* a call not yet issued, and a call that has ended
UpdIdle == [pc |-> "idle", ch |-> Nichi]
UpdDone == [pc |-> "done", ch |-> Nichi]

\* ch: the character of the call; res: "ok" when it returned, "threw" when
\* it threw; err: its UPDATE failed in the storage layer
NoUpd == [ch |-> Nichi, res |-> "none", err |-> FALSE]

\* if (!this.db) throw new Error('Database not initialized'); otherwise the
\* UPDATE is handed to the connection and the call suspends.  Calls are
\* numbered in the order in which they are issued.
updateKanjiTimesSeen_call(u) ==
  /\ upd[u].pc = "idle"
  /\ u = calls + 1
  /\ calls' = calls + 1
  /\ \E c \in Chars :
       IF db
       THEN /\ upd' = [upd EXCEPT ![u] = [pc |-> "run", ch |-> c]]
            /\ lastUpd' = lastUpd
       ELSE /\ upd' = [upd EXCEPT ![u] = UpdDone]
            /\ lastUpd' = [ch |-> c, res |-> "threw", err |-> FALSE]
  /\ UNCHANGED <<storeVars, init, okCalls, prior, procVars, pureVars>>

\* the UPDATE runs; an error is logged and rethrown
updateKanjiTimesSeen_run(u) ==
  /\ upd[u].pc = "run"
  /\ \E ok \in BOOLEAN :
       IF ok /\ tables
       THEN /\ kanji' = SqlUpdateTimesSeen(kanji, upd[u].ch)
            /\ lastUpd' = [ch |-> upd[u].ch, res |-> "ok", err |-> FALSE]
            /\ okCalls' = [okCalls EXCEPT ![upd[u].ch] = @ + 1]
       ELSE /\ kanji' = kanji
            /\ lastUpd' = [ch |-> upd[u].ch, res |-> "threw", err |-> TRUE]
            /\ okCalls' = okCalls
  /\ upd' = [upd EXCEPT ![u] = UpdDone]
  /\ UNCHANGED <<db, tables, txn, saved, init, calls, prior,
                 procVars, pureVars>>

updateKanjiTimesSeen(u) ==
  \/ updateKanjiTimesSeen_call(u)
  \/ updateKanjiTimesSeen_run(u)

\* ------------------------------------------------------------------------
\* JapaneseTextProcessor.
\*
\* The processor reaches the store through
\*   kanjiDatabaseService.getKanjiByCharacter(character)     (line 117)
\*   kanjiDatabaseService.incrementKanjiTimesSeen(character) (line 232)
\* and class KanjiDatabaseService declares neither name; its lookup by
\* character is getKanji and its increment is updateKanjiTimesSeen.  The
\* variable linked keeps both outcomes of such a call apart: FALSE, the
\* member is undefined and the call is a TypeError, thrown inside the try
\* block around it; TRUE, the call runs the service's method of that
\* purpose.  It is fixed for a run.
\* ------------------------------------------------------------------------

\* Texts handed to analyzeText: strings over a dataset kanji, a kanji the
\* dataset lacks and a hiragana.
Alphabet == {Nichi, Hon, Ha}

RECURSIVE SeqsUpTo(_)
SeqsUpTo(n) ==
  IF n = 0 THEN {<< >>}
  ELSE LET shorter == SeqsUpTo(n - 1)
       IN shorter \cup {Append(t, a) : t \in {x \in shorter : Len(x) = n - 1},
                                       a \in Alphabet}

Texts == SeqsUpTo(MaxTextLen)

\* frequency column of a character's dataset record ("" when it has none)
FrequencyOf(c) ==
  LET ks == {k \in 1..Len(kanjiData) : kanjiData[k].character = c}
  IN IF ks = {} THEN "" ELSE kanjiData[CHOOSE k \in ks : TRUE].frequency

\* JSON.parse(result.meanings) of a character's row, as imported
MeaningsOf(c) ==
  LET ks == {k \in 1..Len(kanjiData) : kanjiData[k].character = c}
  IN IF ks = {} THEN << >> ELSE kanjiData[CHOOSE k \in ks : TRUE].meanings

\* while ((match = kanjiRegex.exec(text)) !== null) matches.push(...)
RECURSIVE extractFrom(_, _)
extractFrom(text, p) ==
  IF p > Len(text) THEN << >>
  ELSE (IF isKanji(text[p])
        THEN << [character |-> text[p], position |-> p - 1] >>
        ELSE << >>) \o extractFrom(text, p + 1)

extractKanjiCharacters(text) == extractFrom(text, 1)

\* getKanji: SELECT * FROM kanji WHERE character = ?; null when no row
NoEntry == [character |-> 0, meanings |-> << >>, frequency |-> "",
            timesSeen |-> 0]

getKanji(tbl, c) ==
  IF tbl[c] = NULL THEN NoEntry
  ELSE [character |-> c, meanings |-> MeaningsOf(c),
        frequency |-> FrequencyOf(c), timesSeen |-> TimesSeen(tbl, c)]

\* the three KanjiMatch shapes of getKanjiDetails.  readings of a catalog
\* match are kanjiData.kun_readings || [] and kanjiData.on_readings || [],
\* members a KanjiEntry (kunReadings, onReadings) does not have.
kanjiMatch(e, kanjiEntry) ==
  [character |-> e.character, position |-> e.position,
   meanings |-> kanjiEntry.meanings, readings |-> << >>,
   timesSeen |-> kanjiEntry.timesSeen,
   isNew |-> (kanjiEntry.timesSeen = 0), frequency |-> kanjiEntry.frequency]

basicMatch(e) ==
  [character |-> e.character, position |-> e.position,
   meanings |-> <<"Unknown">>, readings |-> << >>, timesSeen |-> 0,
   isNew |-> TRUE, frequency |-> ""]

fallbackMatch(e) ==
  [character |-> e.character, position |-> e.position,
   meanings |-> <<"Error loading">>, readings |-> << >>, timesSeen |-> 0,
   isNew |-> TRUE, frequency |-> ""]

\* a.frequency - b.frequency: the column holds category names, whose
\* difference is NaN, which Array.prototype.sort takes as 0
frequencyDifference(a, b) == 0

\* a.character.localeCompare(b.character), by code unit
localeCompare(a, b) == IF a < b THEN -1 ELSE IF a > b THEN 1 ELSE 0

\* the comparator of getUniqueKanji
compareKanji(a, b) ==
  IF a.isNew /\ ~b.isNew THEN -1
  ELSE IF ~a.isNew /\ b.isNew THEN 1
  ELSE IF a.frequency # "" /\ b.frequency # "" THEN frequencyDifference(a, b)
  ELSE localeCompare(a.character, b.character)

\* Array.prototype.sort, stable
RECURSIVE insertSorted(_, _)
insertSorted(s, m) ==
  IF s = << >> THEN << m >>
  ELSE IF compareKanji(m, Head(s)) < 0 THEN << m >> \o s
  ELSE << Head(s) >> \o insertSorted(Tail(s), m)

RECURSIVE sortKanji(_)
sortKanji(s) ==
  IF s = << >> THEN << >>
  ELSE insertSorted(sortKanji(SubSeq(s, 1, Len(s) - 1)), s[Len(s)])

\* the Map of getUniqueKanji: the first match of every character, in order
\* of first occurrence
RECURSIVE firstOfEach(_, _)
firstOfEach(s, seen) ==
  IF s = << >> THEN << >>
  ELSE IF Head(s).character \in seen THEN firstOfEach(Tail(s), seen)
  ELSE << Head(s) >> \o firstOfEach(Tail(s), seen \cup {Head(s).character})

\* a variant that keeps every match
getUniqueKanjiKeepingDuplicates(kanjiMatches) == sortKanji(kanjiMatches)

getUniqueKanji(kanjiMatches) == sortKanji(firstOfEach(kanjiMatches, {}))

isNewMatch(m) == m.isNew
isKnownMatch(m) == ~m.isNew

CharsOf(s) == {s[p].character : p \in 1..Len(s)}

calculateTextStats(text, kanjiMatches) ==
  [totalCharacters |-> Len(text),
   kanjiCount |-> Len(kanjiMatches),
   uniqueKanjiCount |-> Cardinality(CharsOf(kanjiMatches)),
   newKanjiCount |-> Cardinality(CharsOf(SelectSeq(kanjiMatches, isNewMatch))),
   hiraganaCount |-> Cardinality({p \in 1..Len(text) : isHiragana(text[p])}),
   katakanaCount |-> Cardinality({p \in 1..Len(text) : isKatakana(text[p])})]

\* steps 3 and 4 of analyzeText and its result object
analysisResult(text, kanjiMatches) ==
  LET uniqueKanji == getUniqueKanji(kanjiMatches)
  IN [originalText |-> text,
      foundKanji |-> kanjiMatches,
      uniqueKanji |-> uniqueKanji,
      newKanji |-> SelectSeq(uniqueKanji, isNewMatch),
      knownKanji |-> SelectSeq(uniqueKanji, isKnownMatch),
      stats |-> calculateTextStats(text, kanjiMatches)]

AnIdle == [pc |-> "idle", text |-> << >>, todo |-> << >>, found |-> << >>,
           after |-> FALSE]

\* analyzeText(text) up to its first await
analyzeText_call ==
  /\ an.pc = "idle"
  /\ Len(results) < MaxAnalyses
  /\ an' = [pc |-> "lookup", text |-> cleanedText,
            todo |-> extractKanjiCharacters(cleanedText), found |-> << >>,
            after |-> (kb.pc = "idle" /\ kb.returned # "none")]
  /\ UNCHANGED <<storeVars, screenVars, pureVars,
                 linked, cleanedText, results, fresh,
                 kb>>

\* a lookup that also counts the character as seen
getKanjiDetails_lookupCounting ==
  /\ an.pc = "lookup"
  /\ an.todo # << >>
  /\ an' = [an EXCEPT !.todo = Tail(@),
                      !.found = Append(@, fallbackMatch(Head(an.todo)))]
  /\ kanji' = SqlUpdateTimesSeen(kanji, Head(an.todo).character)
  /\ UNCHANGED <<db, tables, txn, saved, screenVars, pureVars,
                 linked, cleanedText,
                 results, fresh, kb>>

\* one turn of the loop of getKanjiDetails:
\*   kanjiData = await kanjiDatabaseService.getKanjiByCharacter(character)
\* KanjiDatabaseService declares no getKanjiByCharacter; when the call does
\* not resolve it is a TypeError, which the loop's catch turns into the
\* fallback match.  When it resolves it is the service's lookup by
\* character, getKanji.
getKanjiDetails_lookup ==
  /\ an.pc = "lookup"
  /\ an.todo # << >>
  /\ LET e == Head(an.todo)
     IN \E ok \in BOOLEAN :
          LET row == getKanji(kanji, e.character)
              m == IF ~linked \/ ~db \/ ~ok \/ ~tables THEN fallbackMatch(e)
                   ELSE IF row = NoEntry THEN basicMatch(e)
                   ELSE kanjiMatch(e, row)
          IN an' = [an EXCEPT !.todo = Tail(@), !.found = Append(@, m)]
  /\ UNCHANGED <<storeVars, screenVars, pureVars,
                 linked, cleanedText, results, fresh,
                 kb>>

\* the rest of analyzeText: unique, new and known kanji, stats, return
analyzeText_return ==
  /\ an.pc = "lookup"
  /\ an.todo = << >>
  /\ results' = Append(results, analysisResult(an.text, an.found))
  /\ fresh' = Append(fresh, an.after)
  /\ an' = AnIdle
  /\ UNCHANGED <<storeVars, screenVars, pureVars, linked, cleanedText, kb>>

analyzeText ==
  \/ analyzeText_call
  \/ getKanjiDetails_lookup
  \/ analyzeText_return

\* ------------------------------------------------------------------------
\* updateKnowledgeBank(kanjiMatches), the recordEncounters of the engine.
\* ------------------------------------------------------------------------

\* new Set(kanjiMatches.map(k => k.character)), in insertion order
RECURSIVE distinctChars(_, _)
distinctChars(s, seen) ==
  IF s = << >> THEN << >>
  ELSE IF Head(s).character \in seen THEN distinctChars(Tail(s), seen)
  ELSE << Head(s).character >>
         \o distinctChars(Tail(s), seen \cup {Head(s).character})

NoDelta == [c \in Chars |-> 0]

\* input: the characters of the matches passed (uniqueCharacters); todo:
\* characters still to increment; delta:
\* by how much this call has raised each character's times seen; failed:
\* characters whose increment threw; updatedCount as in the source;
\* returned: how the last call ended ("none" before it has)
KbIdle == [pc |-> "idle", input |-> {}, todo |-> << >>, delta |-> NoDelta,
           failed |-> {}, updatedCount |-> 0, returned |-> "none", n |-> 0]

\* the caller passes the foundKanji of an analysis (ImageAnalysisScreen)
updateKnowledgeBank_call ==
  /\ kb.pc = "idle"
  /\ kb.n < MaxBatches
  /\ \E r \in 1..Len(results) :
       kb' = [pc |-> "loop", input |-> CharsOf(results[r].foundKanji),
              todo |-> distinctChars(results[r].foundKanji, {}),
              delta |-> NoDelta, failed |-> {}, updatedCount |-> 0,
              returned |-> "none", n |-> kb.n + 1]
  /\ UNCHANGED <<storeVars, screenVars, pureVars,
                 linked, cleanedText, an, results,
                 fresh>>

\* one turn of the loop:
\*   try { await kanjiDatabaseService.incrementKanjiTimesSeen(character);
\*         updatedCount++ } catch (error) { console.error(...) }
\* KanjiDatabaseService declares no incrementKanjiTimesSeen; when the call
\* does not resolve it is a TypeError.  When it resolves it is the service's
\* increment, updateKanjiTimesSeen.  Either way an error of the turn is
\* logged and the loop goes on.
updateKnowledgeBank_increment ==
  /\ kb.pc = "loop"
  /\ kb.todo # << >>
  /\ LET c == Head(kb.todo)
     IN \E ok \in BOOLEAN :
          IF linked /\ db /\ ok /\ tables
          THEN /\ kanji' = SqlUpdateTimesSeen(kanji, c)
               /\ kb' = [kb EXCEPT
                           !.todo = Tail(@),
                           !.updatedCount = @ + 1,
                           !.delta[c] = @ + TimesSeen(kanji', c)
                                          - TimesSeen(kanji, c)]
          ELSE /\ kanji' = kanji
               /\ kb' = [kb EXCEPT !.todo = Tail(@),
                                   !.failed = @ \cup {c}]
  /\ UNCHANGED <<db, tables, txn, saved, screenVars, pureVars,
                 linked, cleanedText, an,
                 results, fresh>>

\* the loop is over: console.log(`Knowledge bank updated: ...`) and the
\* promise resolves; nothing inside the outer try can have thrown
updateKnowledgeBank_return ==
  /\ kb.pc = "loop"
  /\ kb.todo = << >>
  /\ kb' = [kb EXCEPT !.pc = "idle", !.returned = "ok"]
  /\ UNCHANGED <<storeVars, screenVars, pureVars,
                 linked, cleanedText, an, results,
                 fresh>>

updateKnowledgeBank ==
  \/ updateKnowledgeBank_call
  \/ updateKnowledgeBank_increment
  \/ updateKnowledgeBank_return

\* ------------------------------------------------------------------------
\* The store on its own: initialize() calls and screens recording
\* encounters, on a device whose store is new or was seeded by an earlier
\* run of the application.
\* ------------------------------------------------------------------------
EmptyTable == [c \in Chars |-> NULL]
SeededTable == [c \in Chars |-> IF c \in DatasetChars THEN 0 ELSE NULL]

\* no call of a stateless function has been made
NoRequest == [fn |-> "none"]
NoResponse == [returned |-> FALSE]

\* AsyncKanjiService not initialized, nothing in AsyncStorage
NoDatabase == [present |-> FALSE, kanji |-> {}, totalKanji |-> 0]

\* error: null
NoError == "null"

\* useState<DatabaseState>({ isLoading: true, isReady: false, error: null,
\* stats: null }); no initializeDatabase() call made yet.  stats holds the
\* totalKanji of the stats object, NULL for null; call: where each
\* initializeDatabase() call is
HookInitial ==
  [isLoading |-> TRUE, isReady |-> FALSE, error |-> NoError, stats |-> NULL,
   call |-> [i \in InitIds |-> "idle"]]

\* the screen's useState values before performOCR has run
\* pc: where the run of performOCR is; configured: ocrService.isConfigured();
\* error: error is not null; analysisResult: the number of the result set,
\* NULL for null; ocrResult: how the text extraction of the run ended;
\* analyzed, updated: calls of analyzeText and of updateKnowledgeBank the
\* run has made
OcrIdle ==
  [pc |-> "idle", configured |-> FALSE, loading |-> TRUE,
   analyzing |-> FALSE, error |-> FALSE, extractedText |-> << >>,
   analysisResult |-> NULL, ocrResult |-> "none", analyzed |-> 0,
   updated |-> 0]

\* the host components and the AsyncStorage service have done nothing
HostIdle ==
  /\ database = NoDatabase
  /\ storage = NoDatabase
  /\ ainit = [i \in InitIds |-> "idle"]
  /\ hook = HookInitial
  /\ ocr = OcrIdle

IdleProcessor ==
  /\ request = NoRequest
  /\ response = NoResponse
  /\ catalog = {}
  /\ HostIdle
  /\ linked = FALSE
  /\ cleanedText = << >>
  /\ an = AnIdle
  /\ results = << >>
  /\ fresh = << >>
  /\ kb = KbIdle

Init ==
  /\ db = FALSE
  /\ \/ tables = FALSE /\ kanji = EmptyTable
     \/ tables = TRUE /\ kanji = SeededTable
  /\ txn = FALSE
  /\ saved = kanji
  /\ init = [i \in InitIds |-> [pc |-> "idle", k |-> 1]]
  /\ upd = [u \in UpdIds |-> UpdIdle]
  /\ lastUpd = NoUpd
  /\ calls = 0
  /\ okCalls = [c \in Chars |-> 0]
  /\ prior = [c \in Chars |-> TimesSeen(kanji, c)]
  /\ IdleProcessor

Next ==
  \/ \E i \in InitIds : initialize(i)
  \/ \E u \in UpdIds : updateKanjiTimesSeen(u)

Spec == Init /\ [][Next]_vars

\* ------------------------------------------------------------------------
\* The processor over a store that an earlier initialize() has opened and
\* seeded, some of whose kanji have been seen before.
\* ------------------------------------------------------------------------
SeenTables ==
  {[c \in Chars |-> IF c = Nichi THEN n ELSE IF c = Gaku THEN 0 ELSE NULL] :
     n \in 0..1}

InitProc ==
  /\ db = TRUE
  /\ tables = TRUE
  /\ kanji \in SeenTables
  /\ txn = FALSE
  /\ saved = kanji
  /\ init = [i \in InitIds |-> [pc |-> "idle", k |-> 1]]
  /\ upd = [u \in UpdIds |-> UpdIdle]
  /\ lastUpd = NoUpd
  /\ calls = 0
  /\ okCalls = [c \in Chars |-> 0]
  /\ prior = [c \in Chars |-> TimesSeen(kanji, c)]
  /\ linked \in BOOLEAN
  /\ cleanedText \in Texts
  /\ an = AnIdle
  /\ results = << >>
  /\ fresh = << >>
  /\ kb = KbIdle
  /\ request = NoRequest
  /\ response = NoResponse
  /\ catalog = {}
  /\ HostIdle

NextProc ==
  \/ analyzeText
  \/ updateKnowledgeBank

SpecProc == InitProc /\ [][NextProc]_vars

TypeOK ==
  /\ db \in BOOLEAN
  /\ tables \in BOOLEAN
  /\ txn \in BOOLEAN
  /\ kanji \in [Chars -> Int]
  /\ \A i \in InitIds : init[i].pc \in InitPcs
  /\ \A u \in UpdIds : upd[u].pc \in {"idle", "run", "done"}
\* ------------------------------------------------------------------------
\* initialize() called again only after the call before it has ended, on a
\* store that is new, while screens record encounters.
\* ------------------------------------------------------------------------
InitRunning(i) == init[i].pc \notin {"idle", "done", "failed"}

initializeInSequence(i) ==
  /\ \A j \in InitIds \ {i} : ~InitRunning(j)
  /\ initialize(i)

InitSeq ==
  /\ Init
  /\ tables = FALSE

NextSeq ==
  \/ \E i \in InitIds : initializeInSequence(i)
  \/ \E u \in UpdIds : updateKanjiTimesSeen(u)

SpecSeq == InitSeq /\ [][NextSeq]_vars

\* ------------------------------------------------------------------------
\* Reads of the catalog while initialize() calls run.
\* ------------------------------------------------------------------------

\* getAllKanji(): if (!this.db) throw new Error('Database not initialized');
\* SELECT * FROM kanji ORDER BY ...; an error is logged and rethrown.  The
\* response keeps the characters of the rows returned and whether an
\* initialize() was running when the statement ran.
getAllKanji_call ==
  /\ request' = [fn |-> "getAllKanji"]
  /\ \E ok \in BOOLEAN :
       response' =
         [returned |-> TRUE,
          running |-> \E i \in InitIds : InitRunning(i),
          error |-> IF ~db THEN "Database not initialized"
                    ELSE IF ~tables THEN "no such table"
                    ELSE IF ~ok THEN "storage" ELSE "none",
          value |-> IF db /\ tables /\ ok
                    THEN {c \in Chars : kanji[c] # NULL} ELSE {}]
  /\ UNCHANGED <<storeVars, screenVars, procVars, catalog, hostVars>>

NextRead ==
  \/ \E i \in InitIds : initialize(i)
  \/ getAllKanji_call

SpecRead == Init /\ [][NextRead]_vars

\* ------------------------------------------------------------------------
\* getUniqueKanji on its own: the function applied to a list of matches.
\* ------------------------------------------------------------------------
MaxMatches == 2

\* no call of the store or of the processor is running
AtRest ==
  /\ txn = FALSE
  /\ saved = kanji
  /\ init = [i \in InitIds |-> [pc |-> "idle", k |-> 1]]
  /\ upd = [u \in UpdIds |-> UpdIdle]
  /\ lastUpd = NoUpd
  /\ calls = 0
  /\ okCalls = [c \in Chars |-> 0]
  /\ prior = [c \in Chars |-> 0]
  /\ linked = FALSE
  /\ cleanedText = << >>
  /\ an = AnIdle
  /\ results = << >>
  /\ fresh = << >>
  /\ kb = KbIdle
  /\ HostIdle

\* KanjiMatch values as getKanjiDetails builds them: of a character seen or
\* not seen before, with or without a frequency
Matches ==
  {[character |-> c, position |-> 0, meanings |-> << >>, readings |-> << >>,
    timesSeen |-> n, isNew |-> (n = 0), frequency |-> f] :
     c \in Chars, n \in 0..1, f \in {"", "very common"}}

RECURSIVE MatchSeqs(_)
MatchSeqs(n) ==
  IF n = 0 THEN {<< >>}
  ELSE LET shorter == MatchSeqs(n - 1)
       IN shorter \cup {Append(t, m) : t \in {x \in shorter : Len(x) = n - 1},
                                       m \in Matches}

InitSort ==
  /\ db = FALSE
  /\ tables = FALSE
  /\ kanji = EmptyTable
  /\ AtRest
  /\ request \in {[fn |-> "getUniqueKanji", kanjiMatches |-> s] :
                     s \in MatchSeqs(MaxMatches)}
  /\ response = NoResponse
  /\ catalog = {}

\* const uniqueKanji = this.getUniqueKanji(kanjiMatches)
getUniqueKanji_call ==
  /\ request.fn = "getUniqueKanji"
  /\ response = NoResponse
  /\ response' = [returned |-> TRUE,
                  value |-> getUniqueKanji(request.kanjiMatches)]
  /\ UNCHANGED <<storeVars, screenVars, procVars, request, catalog,
                 hostVars>>

NextSort == getUniqueKanji_call

SpecSort == InitSort /\ [][NextSort]_vars

\* ------------------------------------------------------------------------
\* searchKanji(options) over a catalog that does not change.
\*
\* Strings are sequences of code units.  The TEXT columns meanings,
\* on_readings and kun_readings hold JSON.stringify of the dataset's lists.
\* ------------------------------------------------------------------------
MaxQueryLen == 1
MaxLimit == 2
MaxOffset == 2

LowerA == 97
LowerB == 98
UpperB == 66
Quote == 34
Comma == 44
Backslash == 92
LBracket == 91
RBracket == 93
Percent == 37
Underscore == 95
Ni == 12491
Chi == 12481
Hi == 12402

\* records of kanji.json with the members searchKanji reads; one- and
\* two-letter strings stand for the English glosses.  jlptLevel 0 and
\* frequency "" stand for a record without the member.
searchData ==
  { [character |-> <<Nichi>>, meanings |-> << <<LowerA>>, <<LowerB>> >>,
     onReadings |-> << <<Ni, Chi>> >>, kunReadings |-> << <<Hi>> >>,
     strokeCount |-> 4, jlptLevel |-> 5, frequency |-> "very common"],
    [character |-> <<Gaku>>, meanings |-> << <<LowerA, LowerB>> >>,
     onReadings |-> << >>, kunReadings |-> << >>,
     strokeCount |-> 8, jlptLevel |-> 5, frequency |-> ""],
    [character |-> <<Hon>>, meanings |-> << <<LowerB>> >>,
     onReadings |-> << >>, kunReadings |-> << <<Hi>> >>,
     strokeCount |-> 4, jlptLevel |-> 4, frequency |-> "common"] }

\* JSON.stringify of a string: quoted, with " and \ escaped
RECURSIVE jsonEscape(_)
jsonEscape(str) ==
  IF str = << >> THEN << >>
  ELSE (IF Head(str) \in {Quote, Backslash} THEN <<Backslash, Head(str)>>
        ELSE <<Head(str)>>) \o jsonEscape(Tail(str))

RECURSIVE jsonItems(_)
jsonItems(list) ==
  IF list = << >> THEN << >>
  ELSE <<Quote>> \o jsonEscape(Head(list)) \o <<Quote>>
         \o (IF Tail(list) = << >> THEN << >> ELSE <<Comma>>)
         \o jsonItems(Tail(list))

\* JSON.stringify of a list of strings
jsonStringify(list) == <<LBracket>> \o jsonItems(list) \o <<RBracket>>

\* the row that importKanjiJsonData inserts for a record
rowOf(rec) ==
  [character |-> rec.character,
   meanings |-> jsonStringify(rec.meanings),
   on_readings |-> jsonStringify(rec.onReadings),
   kun_readings |-> jsonStringify(rec.kunReadings),
   stroke_count |-> rec.strokeCount,
   jlpt_level |-> rec.jlptLevel,
   frequency |-> rec.frequency]

\* SQLite folds the case of ASCII letters in LIKE
sqlFold(c) == IF c >= 65 /\ c <= 90 THEN c + 32 ELSE c

\* text LIKE pattern: % matches any run of characters, _ any one character
RECURSIVE sqlLike(_, _)
sqlLike(text, pattern) ==
  IF pattern = << >> THEN text = << >>
  ELSE IF Head(pattern) = Percent
  THEN \/ sqlLike(text, Tail(pattern))
       \/ (text # << >> /\ sqlLike(Tail(text), pattern))
  ELSE /\ text # << >>
       /\ (Head(pattern) = Underscore
             \/ sqlFold(Head(pattern)) = sqlFold(Head(text)))
       /\ sqlLike(Tail(text), Tail(pattern))

Has(options, member) == member \in DOMAIN options

\* the WHERE clause that searchKanji builds from its options
whereClause(row, options) ==
  /\ (Has(options, "query") /\ options.query # << >>)
       => LET searchTerm == <<Percent>> \o options.query \o <<Percent>>
          IN \/ sqlLike(row.character, searchTerm)
             \/ sqlLike(row.meanings, searchTerm)
             \/ sqlLike(row.on_readings, searchTerm)
             \/ sqlLike(row.kun_readings, searchTerm)
  /\ Has(options, "jlptLevel") => row.jlpt_level = options.jlptLevel
  /\ Has(options, "strokeCount") => row.stroke_count = options.strokeCount
  /\ Has(options, "frequency") => row.frequency = options.frequency

\* ORDER BY stroke_count ASC, character ASC
rowBefore(a, b) ==
  \/ a.stroke_count < b.stroke_count
  \/ (a.stroke_count = b.stroke_count /\ a.character[1] < b.character[1])

RECURSIVE orderBy(_)
orderBy(rows) ==
  IF rows = {} THEN << >>
  ELSE LET first == CHOOSE a \in rows : \A b \in rows \ {a} : rowBefore(a, b)
       IN <<first>> \o orderBy(rows \ {first})

\* LIMIT ? OFFSET ?: a negative LIMIT is no limit, a negative OFFSET is 0
sqlLimitOffset(rows, limit, offset) ==
  LET skip == IF offset < 0 THEN 0 ELSE offset
      last == IF limit < 0 \/ skip + limit > Len(rows) THEN Len(rows)
              ELSE skip + limit
  IN IF skip >= last THEN << >> ELSE SubSeq(rows, skip + 1, last)

\* a searchKanji whose totalCount is the length of the page
searchKanjiCountingPage(rows, options) ==
  LET limit == IF Has(options, "limit") THEN options.limit ELSE 50
      offset == IF Has(options, "offset") THEN options.offset ELSE 0
      matching == {row \in rows : whereClause(row, options)}
      page == sqlLimitOffset(orderBy(matching), limit, offset)
  IN [kanji |-> page, totalCount |-> Len(page)]

\* const { ..., limit = 50, offset = 0 } = options; the COUNT(*) query and
\* the page query over the same WHERE clause
searchKanji(rows, options) ==
  LET limit == IF Has(options, "limit") THEN options.limit ELSE 50
      offset == IF Has(options, "offset") THEN options.offset ELSE 0
      matching == {row \in rows : whereClause(row, options)}
  IN [kanji |-> sqlLimitOffset(orderBy(matching), limit, offset),
      totalCount |-> Cardinality(matching)]

QueryAlphabet == {LowerA, UpperB, Comma, Underscore, Ni, Nichi}

RECURSIVE Queries(_)
Queries(n) ==
  IF n = 0 THEN {<< >>}
  ELSE LET shorter == Queries(n - 1)
       IN shorter \cup {Append(q, a) : q \in {x \in shorter : Len(x) = n - 1},
                                       a \in QueryAlphabet}

\* the filters of a search, each present or not
Filters ==
  LET Full == [query : Queries(MaxQueryLen), jlptLevel : {5},
               strokeCount : {4}, frequency : {"very common"}]
  IN {[m \in ms |-> full[m]] : full \in Full, ms \in SUBSET DOMAIN
        [query |-> 0, jlptLevel |-> 0, strokeCount |-> 0, frequency |-> 0]}

\* a page of a search: limit and offset, each present or not
Pages ==
  LET Full == [limit : -1..MaxLimit, offset : -1..MaxOffset]
  IN {[m \in ms |-> full[m]] : full \in Full,
                               ms \in SUBSET {"limit", "offset"}}

Merge(f, g) ==
  [m \in DOMAIN f \cup DOMAIN g |-> IF m \in DOMAIN f THEN f[m] ELSE g[m]]

\* an initialized store; table kanji holds the rows of the catalog
InitSearch ==
  /\ db = TRUE
  /\ tables = TRUE
  /\ catalog \in SUBSET {rowOf(rec) : rec \in searchData}
  /\ kanji = [c \in Chars |->
                IF \E row \in catalog : row.character = <<c>> THEN 0
                ELSE NULL]
  /\ AtRest
  /\ request \in {[fn |-> "searchKanji", options |-> Merge(f, pg)] :
                     f \in Filters, pg \in Pages}
  /\ response = NoResponse

\* searchKanji(options): the count query, then the page query; an error of
\* either is logged and rethrown
searchKanji_call ==
  /\ request.fn = "searchKanji"
  /\ db
  /\ response = NoResponse
  /\ \E ok \in BOOLEAN :
       response' = IF ok
                   THEN [returned |-> TRUE, error |-> "none",
                         value |-> searchKanji(catalog, request.options)]
                   ELSE [returned |-> TRUE, error |-> "storage"]
  /\ UNCHANGED <<storeVars, screenVars, procVars, request, catalog,
                 hostVars>>

NextSearch == searchKanji_call

SpecSearch == InitSearch /\ [][NextSearch]_vars

\* ------------------------------------------------------------------------
\* calculateDifficultyScore(analysisResult), in exact arithmetic.
\* ------------------------------------------------------------------------
MaxScoreChars == 2
MaxNewKanji == 2

\* newKanji.map(k => k.jlptLevel).filter(level => level !== undefined):
\* the levels of the entries that have the member, null (NULL) included
RECURSIVE jlptLevels(_)
jlptLevels(newKanji) ==
  IF newKanji = << >> THEN << >>
  ELSE (IF "jlptLevel" \in DOMAIN Head(newKanji)
        THEN <<Head(newKanji).jlptLevel>> ELSE << >>)
         \o jlptLevels(Tail(newKanji))

\* reduce((sum, level) => sum + level, 0); null adds 0
RECURSIVE sumLevels(_)
sumLevels(levels) ==
  IF levels = << >> THEN 0
  ELSE (IF Head(levels) = NULL THEN 0 ELSE Head(levels))
         + sumLevels(Tail(levels))

\* Math.round of the fraction n / d, d > 0: halves go up
mathRound(n, d) == (2 * n + d) \div (2 * d)

\* the score without Math.min(..., 10)
calculateDifficultyScoreUnclamped(result) ==
  LET stats == result.stats
      levels == jlptLevels(result.newKanji)
      avgNum == IF Len(levels) > 0 THEN sumLevels(levels) ELSE 3
      avgDen == IF Len(levels) > 0 THEN Len(levels) ELSE 1
      T == stats.totalCharacters
      u == stats.uniqueKanjiCount
      d == 2 * T * u * avgDen
      n == d + 3 * stats.kanjiCount * 2 * u * avgDen
             + 4 * stats.newKanjiCount * 2 * T * avgDen
             + (6 * avgDen - avgNum) * T * u
  IN IF stats.kanjiCount = 0 THEN 1 ELSE mathRound(n, d)

\* difficulty = 1 + kanjiRatio * 3 + newKanjiRatio * 4
\*                + (6 - avgJlptLevel) * 0.5, as the fraction n / d;
\* return Math.min(Math.round(difficulty), 10)
calculateDifficultyScore(result) ==
  LET stats == result.stats
      levels == jlptLevels(result.newKanji)
      avgNum == IF Len(levels) > 0 THEN sumLevels(levels) ELSE 3
      avgDen == IF Len(levels) > 0 THEN Len(levels) ELSE 1
      T == stats.totalCharacters
      u == stats.uniqueKanjiCount
      d == 2 * T * u * avgDen
      n == d + 3 * stats.kanjiCount * 2 * u * avgDen
             + 4 * stats.newKanjiCount * 2 * T * avgDen
             + (6 * avgDen - avgNum) * T * u
      rounded == mathRound(n, d)
  IN IF stats.kanjiCount = 0 THEN 1
     ELSE IF rounded < 10 THEN rounded ELSE 10

\* the stats of a text of up to MaxScoreChars characters, as
\* calculateTextStats counts them
ScoreStats ==
  {st \in [totalCharacters : 0..MaxScoreChars, kanjiCount : 0..MaxScoreChars,
           uniqueKanjiCount : 0..MaxScoreChars,
           newKanjiCount : 0..MaxScoreChars] :
     /\ st.kanjiCount <= st.totalCharacters
     /\ st.uniqueKanjiCount <= st.kanjiCount
     /\ st.kanjiCount > 0 => st.uniqueKanjiCount > 0
     /\ st.newKanjiCount <= st.uniqueKanjiCount}

\* a newKanji entry: without an exam level, with null, with a level 1..5
ScoreEntries ==
  {[character |-> Nichi]}
    \cup {[character |-> Nichi, jlptLevel |-> l] : l \in {NULL} \cup 1..5}

RECURSIVE ScoreEntrySeqs(_)
ScoreEntrySeqs(n) ==
  IF n = 0 THEN {<< >>}
  ELSE LET shorter == ScoreEntrySeqs(n - 1)
       IN shorter \cup {Append(t, e) : t \in {x \in shorter : Len(x) = n - 1},
                                       e \in ScoreEntries}

InitScore ==
  /\ db = FALSE
  /\ tables = FALSE
  /\ kanji = EmptyTable
  /\ AtRest
  /\ catalog = {}
  /\ request \in {[fn |-> "calculateDifficultyScore",
                   analysisResult |-> [stats |-> st, newKanji |-> nk]] :
                     st \in ScoreStats, nk \in ScoreEntrySeqs(MaxNewKanji)}
  /\ response = NoResponse

calculateDifficultyScore_call ==
  /\ request.fn = "calculateDifficultyScore"
  /\ response = NoResponse
  /\ response' = [returned |-> TRUE,
                  value |-> calculateDifficultyScore(request.analysisResult)]
  /\ UNCHANGED <<storeVars, screenVars, procVars, request, catalog,
                 hostVars>>

NextScore == calculateDifficultyScore_call

SpecScore == InitScore /\ [][NextScore]_vars

\* ------------------------------------------------------------------------
\* AsyncKanjiService, the service over AsyncStorage, and the statistics of
\* both services read while they initialize.
\* ------------------------------------------------------------------------

\* the keys of initialKanji in createInitialDatabase (the first of them)
initialKanji == {Nichi, Hon, Gaku}

asyncInitialize_call(a) ==
  /\ ainit[a] = "idle"
  /\ \A b \in InitIds : b < a => ainit[b] # "idle"
  /\ ainit' = [ainit EXCEPT ![a] = "getItem"]
  /\ UNCHANGED <<storeVars, screenVars, procVars, request, response,
                 catalog, database, storage, hook, ocr>>

\* createInitialDatabase up to its await: this.database = { kanji:
\* initialKanji, metadata: { totalKanji: Object.keys(initialKanji).length } }
createInitialDatabase ==
  [present |-> TRUE, kanji |-> initialKanji,
   totalKanji |-> Cardinality(initialKanji)]

\* const stored = await AsyncStorage.getItem(this.STORAGE_KEY);
\* if (stored) this.database = JSON.parse(stored)
\* else await this.createInitialDatabase()
asyncInitialize_getItem(a) ==
  /\ ainit[a] = "getItem"
  /\ \E ok \in BOOLEAN :
       IF ~ok
       THEN /\ ainit' = [ainit EXCEPT ![a] = "failed"]
            /\ database' = database
       ELSE IF storage.present
       THEN /\ ainit' = [ainit EXCEPT ![a] = "done"]
            /\ database' = storage
       ELSE /\ ainit' = [ainit EXCEPT ![a] = "setItem"]
            /\ database' = createInitialDatabase
  /\ UNCHANGED <<storeVars, screenVars, procVars, request, response,
                 catalog, storage, hook, ocr>>

\* saveDatabase: await AsyncStorage.setItem(this.STORAGE_KEY,
\* JSON.stringify(this.database)); an error is logged and rethrown
asyncInitialize_setItem(a) ==
  /\ ainit[a] = "setItem"
  /\ \E ok \in BOOLEAN :
       IF ok
       THEN /\ storage' = database
            /\ ainit' = [ainit EXCEPT ![a] = "done"]
       ELSE /\ storage' = storage
            /\ ainit' = [ainit EXCEPT ![a] = "failed"]
  /\ UNCHANGED <<storeVars, screenVars, procVars, request, response,
                 catalog, database, hook, ocr>>

asyncInitialize(a) ==
  \/ asyncInitialize_call(a)
  \/ asyncInitialize_getItem(a)
  \/ asyncInitialize_setItem(a)

\* AsyncKanjiService.getDatabaseStats(): if (!this.database) throw;
\* totalKanji: this.database.metadata.totalKanji
asyncGetDatabaseStats_call ==
  /\ request' = [fn |-> "AsyncKanjiService.getDatabaseStats"]
  /\ response' =
       [returned |-> TRUE,
        error |-> IF database.present THEN "none"
                  ELSE "Database not initialized",
        value |-> [totalKanji |-> database.totalKanji]]
  /\ UNCHANGED <<storeVars, screenVars, procVars, catalog, hostVars>>

\* AsyncKanjiService.getAllKanji(): if (!this.database) throw;
\* return Object.values(this.database.kanji)
asyncGetAllKanji_call ==
  /\ request' = [fn |-> "AsyncKanjiService.getAllKanji"]
  /\ response' =
       [returned |-> TRUE,
        error |-> IF database.present THEN "none"
                  ELSE "Database not initialized",
        value |-> database.kanji]
  /\ UNCHANGED <<storeVars, screenVars, procVars, catalog, hostVars>>

\* KanjiDatabaseService.getDatabaseStats() called by a screen:
\* if (!this.db) throw new Error('Database not initialized'); the COUNT(*)
\* statement, then the SELECT of seeded_at; an error is logged and rethrown.
\* The count returned is the one the first statement reads.
getDatabaseStats_call ==
  /\ request' = [fn |-> "getDatabaseStats"]
  /\ \E ok \in BOOLEAN :
       response' =
         [returned |-> TRUE,
          error |-> IF ~db THEN "Database not initialized"
                    ELSE IF ~tables THEN "no such table"
                    ELSE IF ~ok THEN "storage" ELSE "none",
          value |-> IF db /\ tables /\ ok THEN getDatabaseStats(kanji)
                    ELSE getDatabaseStats(EmptyTable)]
  /\ UNCHANGED <<storeVars, screenVars, procVars, catalog, hostVars>>

\* The application is built with one of the two services behind
\* useDatabase: a run uses either the SQLite service or the AsyncStorage one.
SqliteInUse ==
  \/ \E i \in InitIds : init[i].pc # "idle"
  \/ request.fn \in {"getDatabaseStats", "getAllKanji"}

AsyncStorageInUse ==
  \/ \E a \in InitIds : ainit[a] # "idle"
  \/ request.fn \in {"AsyncKanjiService.getDatabaseStats",
                      "AsyncKanjiService.getAllKanji"}

NextStats ==
  \/ /\ ~AsyncStorageInUse
     /\ \/ \E i \in InitIds : initialize(i)
        \/ getDatabaseStats_call
        \/ getAllKanji_call
  \/ /\ ~SqliteInUse
     /\ \/ \E a \in InitIds : asyncInitialize(a)
        \/ asyncGetDatabaseStats_call
        \/ asyncGetAllKanji_call

SpecStats == Init /\ [][NextStats]_vars

\* ------------------------------------------------------------------------
\* getMultipleKanji(characters) over a catalog that does not change.
\* ------------------------------------------------------------------------
MaxRequested == 2

\* ORDER BY stroke_count ASC: the orders in which SQLite may return the
\* rows; the order of rows of equal stroke_count is not defined
RECURSIVE orderByStrokeCount(_)
orderByStrokeCount(rows) ==
  IF rows = {} THEN {<< >>}
  ELSE UNION {{<<a>> \o t : t \in orderByStrokeCount(rows \ {a})} :
                a \in {x \in rows :
                         \A b \in rows : x.stroke_count <= b.stroke_count}}

\* results.map(row => ({ character: row.character, strokeCount:
\* row.stroke_count, jlptLevel: row.jlpt_level, ... })), the members the
\* callers of getMultipleKanji read
entryOfRow(row) ==
  [character |-> row.character, strokeCount |-> row.stroke_count,
   jlptLevel |-> row.jlpt_level, frequency |-> row.frequency]

\* WHERE character IN (?, ..., ?)
sqlIn(rows, characters) ==
  {row \in rows : \E p \in 1..Len(characters) : row.character = characters[p]}

\* the lists of entries a call may return
getMultipleKanji(rows, characters) ==
  IF Len(characters) = 0 THEN {<< >>}
  ELSE {[p \in 1..Len(s) |-> entryOfRow(s[p])] :
          s \in orderByStrokeCount(sqlIn(rows, characters))}

RECURSIVE CharacterLists(_)
CharacterLists(n) ==
  IF n = 0 THEN {<< >>}
  ELSE LET shorter == CharacterLists(n - 1)
       IN shorter \cup {Append(t, <<c>>) :
                          t \in {x \in shorter : Len(x) = n - 1},
                          c \in Chars}

InitMulti ==
  /\ db = TRUE
  /\ tables = TRUE
  /\ catalog \in SUBSET {rowOf(rec) : rec \in searchData}
  /\ kanji = [c \in Chars |->
                IF \E row \in catalog : row.character = <<c>> THEN 0
                ELSE NULL]
  /\ AtRest
  /\ request \in {[fn |-> "getMultipleKanji", characters |-> cs] :
                     cs \in CharacterLists(MaxRequested)}
  /\ response = NoResponse

\* getMultipleKanji(characters): if (!this.db) throw; an error of the
\* statement is logged and rethrown
getMultipleKanji_call ==
  /\ request.fn = "getMultipleKanji"
  /\ response = NoResponse
  /\ \E ok \in BOOLEAN :
       \E list \in getMultipleKanji(catalog, request.characters) :
         response' =
           IF ~db THEN [returned |-> TRUE, error |-> "Database not initialized"]
           ELSE IF ok \/ Len(request.characters) = 0
           THEN [returned |-> TRUE, error |-> "none", value |-> list]
           ELSE [returned |-> TRUE, error |-> "storage"]
  /\ UNCHANGED <<storeVars, screenVars, procVars, request, catalog,
                 hostVars>>

NextMulti == getMultipleKanji_call

SpecMulti == InitMulti /\ [][NextMulti]_vars

\* ------------------------------------------------------------------------
\* cleanText(text) on its own: the function applied to a text of code units.
\* ------------------------------------------------------------------------
MaxCleanLen == 5

Space == 32
Newline == 10
CarriageReturn == 13
Ka == 12459

\* the characters \s matches in a JavaScript regular expression
isWhitespace(c) ==
  \/ c \in {9, 10, 11, 12, 13, 32, 160, 5760, 8232, 8233, 8239, 8287,
            12288, 65279}
  \/ c >= 8192 /\ c <= 8202

\* .replace(/\s+/g, ' '): every run of whitespace becomes one space
RECURSIVE skipWhitespace(_)
skipWhitespace(text) ==
  IF text # << >> /\ isWhitespace(Head(text)) THEN skipWhitespace(Tail(text))
  ELSE text

RECURSIVE collapseWhitespace(_)
collapseWhitespace(text) ==
  IF text = << >> THEN << >>
  ELSE IF isWhitespace(Head(text))
  THEN <<Space>> \o collapseWhitespace(skipWhitespace(text))
  ELSE <<Head(text)>> \o collapseWhitespace(Tail(text))

\* a character class that lacks the katakana range
keptWithoutKatakana(c) ==
  \/ isHiragana(c)
  \/ isKanji(c)
  \/ c >= 65280 /\ c <= 65519
  \/ isWhitespace(c)
  \/ c \in {46, 44, 33, 63, 12290, 12289}

\* the class [\u3040-\u309F\u30A0-\u30FF\u4E00-\u9FAF\uFF00-\uFFEF\s\n.,!?]
\* with the ideographic full stop and comma, whose complement the second
\* replace removes
keptByCleanText(c) ==
  \/ isHiragana(c)
  \/ isKatakana(c)
  \/ isKanji(c)
  \/ c >= 65280 /\ c <= 65519
  \/ isWhitespace(c)
  \/ c \in {46, 44, 33, 63, 12290, 12289}

\* .replace(/[^...]/g, '')
removeArtifacts(text) == SelectSeq(text, keptByCleanText)

\* .replace(/\r\n/g, '\n')
RECURSIVE normalizeCrLf(_)
normalizeCrLf(text) ==
  IF text = << >> THEN << >>
  ELSE IF Len(text) >= 2 /\ text[1] = CarriageReturn /\ text[2] = Newline
  THEN <<Newline>> \o normalizeCrLf(Tail(Tail(text)))
  ELSE <<Head(text)>> \o normalizeCrLf(Tail(text))

\* .replace(/\r/g, '\n')
normalizeCr(text) ==
  [p \in 1..Len(text) |->
     IF text[p] = CarriageReturn THEN Newline ELSE text[p]]

\* .trim()
RECURSIVE trimEnd(_)
trimEnd(text) ==
  IF text # << >> /\ isWhitespace(text[Len(text)])
  THEN trimEnd(SubSeq(text, 1, Len(text) - 1))
  ELSE text

trim(text) == trimEnd(skipWhitespace(text))

cleanText(text) ==
  trim(normalizeCr(normalizeCrLf(removeArtifacts(collapseWhitespace(text)))))

\* what an OCR result is made of: whitespace, line breaks, a Latin letter,
\* a kanji, a hiragana and a katakana
OcrAlphabet == {Space, Newline, CarriageReturn, LowerA, Nichi, Ha, Ka}

RECURSIVE OcrTexts(_)
OcrTexts(n) ==
  IF n = 0 THEN {<< >>}
  ELSE LET shorter == OcrTexts(n - 1)
       IN shorter \cup {Append(t, a) : t \in {x \in shorter : Len(x) = n - 1},
                                       a \in OcrAlphabet}

InitClean ==
  /\ db = FALSE
  /\ tables = FALSE
  /\ kanji = EmptyTable
  /\ AtRest
  /\ catalog = {}
  /\ request \in {[fn |-> "cleanText", text |-> t] :
                     t \in OcrTexts(MaxCleanLen)}
  /\ response = NoResponse

\* const cleanedText = japaneseTextProcessor.cleanText(ocrResult.text)
cleanText_call ==
  /\ request.fn = "cleanText"
  /\ response = NoResponse
  /\ response' = [returned |-> TRUE, value |-> cleanText(request.text)]
  /\ UNCHANGED <<storeVars, screenVars, procVars, request, catalog,
                 hostVars>>

NextClean == cleanText_call

SpecClean == InitClean /\ [][NextClean]_vars

\* ------------------------------------------------------------------------
\* ImageAnalysisScreen: performOCR, run when the screen opens and again from
\* its retry buttons, over a store that is open and seeded.
\* ------------------------------------------------------------------------
MaxOcrLen == 2
MaxOcrRuns == 1

\* the texts the text extraction returns: of a kanji, a Latin letter and
\* spaces
ScannedAlphabet == {Nichi, LowerA, Space}

RECURSIVE ScannedTexts(_)
ScannedTexts(n) ==
  IF n = 0 THEN {<< >>}
  ELSE LET shorter == ScannedTexts(n - 1)
       IN shorter \cup {Append(t, a) : t \in {x \in shorter : Len(x) = n - 1},
                                       a \in ScannedAlphabet}

\* catch (error) { setError(String(error)); setLoading(false);
\*                 setAnalyzing(false) }
performOCR_catch(how) ==
  [ocr EXCEPT !.pc = "done", !.ocrResult = how, !.error = TRUE,
              !.loading = FALSE, !.analyzing = FALSE]

\* performOCR up to its first await: setLoading(true); setAnalyzing(true);
\* setError(null); if (!ocrService.isConfigured()) throw.  The screen shows
\* its buttons only when loading is false.
performOCR_call ==
  /\ ocr.pc \in {"idle", "done"}
  /\ LET started == [ocr EXCEPT !.loading = TRUE, !.analyzing = TRUE,
                                !.error = FALSE, !.ocrResult = "none",
                                !.analyzed = 0, !.updated = 0]
     IN ocr' = IF ocr.configured THEN [started EXCEPT !.pc = "extract"]
               ELSE [started EXCEPT !.pc = "done",
                                    !.ocrResult = "not configured",
                                    !.error = TRUE, !.loading = FALSE,
                                    !.analyzing = FALSE]
  /\ UNCHANGED <<storeVars, screenVars, procVars, request, response,
                 catalog, database, storage, ainit, hook>>

\* const ocrResult = await ocrService.extractTextFromImage(imageUri): it
\* throws, or returns a text; no text or whitespace only is thrown as 'No
\* text detected in image'.  Otherwise setExtractedText, the alert when the
\* text is not Japanese, cleanText and analyzeText(cleanedText) up to its
\* first await.  At most MaxOcrRuns runs get a text.
performOCR_extract ==
  /\ ocr.pc = "extract"
  /\ \/ /\ ocr' = performOCR_catch("failed")
        /\ UNCHANGED <<cleanedText, an>>
     \/ \E t \in ScannedTexts(MaxOcrLen) :
          IF Len(t) = 0 \/ Len(trim(t)) = 0 \/ Len(results) >= MaxOcrRuns
          THEN /\ ocr' = performOCR_catch("empty")
               /\ UNCHANGED <<cleanedText, an>>
          ELSE /\ ocr' = [ocr EXCEPT !.pc = "analyze", !.ocrResult = "text",
                                     !.extractedText = t,
                                     !.analyzed = @ + 1]
               /\ cleanedText' = cleanText(t)
               /\ an' = [pc |-> "lookup", text |-> cleanedText',
                         todo |-> extractKanjiCharacters(cleanedText'),
                         found |-> << >>,
                         after |-> (kb.pc = "idle" /\ kb.returned # "none")]
  /\ UNCHANGED <<storeVars, screenVars, linked, results, fresh, kb, request,
                 response, catalog, database, storage, ainit, hook>>

\* a run that updates the knowledge bank whatever analyzeText found
performOCR_analyzedAlways ==
  /\ ocr.pc = "analyze"
  /\ an.pc = "idle"
  /\ LET textAnalysis == results[Len(results)]
     IN /\ ocr' = [ocr EXCEPT !.pc = "update",
                              !.analysisResult = Len(results),
                              !.updated = @ + 1]
        /\ kb' = [pc |-> "loop",
                  input |-> CharsOf(textAnalysis.foundKanji),
                  todo |-> distinctChars(textAnalysis.foundKanji, {}),
                  delta |-> NoDelta, failed |-> {}, updatedCount |-> 0,
                  returned |-> "none", n |-> kb.n + 1]
  /\ UNCHANGED <<storeVars, screenVars, linked, cleanedText, an, results,
                 fresh, request, response, catalog, database, storage,
                 ainit, hook>>

\* analyzeText has returned: setAnalysisResult(textAnalysis);
\* if (textAnalysis.foundKanji.length > 0) updateKnowledgeBank(foundKanji)
\* up to its first await; otherwise setLoading(false); setAnalyzing(false)
performOCR_analyzed ==
  /\ ocr.pc = "analyze"
  /\ an.pc = "idle"
  /\ LET textAnalysis == results[Len(results)]
     IN IF Len(textAnalysis.foundKanji) > 0
        THEN /\ ocr' = [ocr EXCEPT !.pc = "update",
                                   !.analysisResult = Len(results),
                                   !.updated = @ + 1]
             /\ kb' = [pc |-> "loop",
                       input |-> CharsOf(textAnalysis.foundKanji),
                       todo |-> distinctChars(textAnalysis.foundKanji, {}),
                       delta |-> NoDelta, failed |-> {}, updatedCount |-> 0,
                       returned |-> "none", n |-> kb.n + 1]
        ELSE /\ ocr' = [ocr EXCEPT !.pc = "done",
                                   !.analysisResult = Len(results),
                                   !.loading = FALSE, !.analyzing = FALSE]
             /\ kb' = kb
  /\ UNCHANGED <<storeVars, screenVars, linked, cleanedText, an, results,
                 fresh, request, response, catalog, database, storage,
                 ainit, hook>>

\* updateKnowledgeBank has returned: setLoading(false); setAnalyzing(false)
performOCR_updated ==
  /\ ocr.pc = "update"
  /\ kb.pc = "idle"
  /\ ocr' = [ocr EXCEPT !.pc = "done", !.loading = FALSE,
                        !.analyzing = FALSE]
  /\ UNCHANGED <<storeVars, screenVars, procVars, request, response,
                 catalog, database, storage, ainit, hook>>

performOCR ==
  \/ performOCR_call
  \/ performOCR_extract
  \/ getKanjiDetails_lookup
  \/ analyzeText_return
  \/ performOCR_analyzed
  \/ updateKnowledgeBank_increment
  \/ updateKnowledgeBank_return
  \/ performOCR_updated

InitOCR ==
  /\ db = TRUE
  /\ tables = TRUE
  /\ kanji \in SeenTables
  /\ txn = FALSE
  /\ saved = kanji
  /\ init = [i \in InitIds |-> [pc |-> "idle", k |-> 1]]
  /\ upd = [u \in UpdIds |-> UpdIdle]
  /\ lastUpd = NoUpd
  /\ calls = 0
  /\ okCalls = [c \in Chars |-> 0]
  /\ prior = [c \in Chars |-> TimesSeen(kanji, c)]
  /\ linked \in BOOLEAN
  /\ cleanedText = << >>
  /\ an = AnIdle
  /\ results = << >>
  /\ fresh = << >>
  /\ kb = KbIdle
  /\ request = NoRequest
  /\ response = NoResponse
  /\ catalog = {}
  /\ database = NoDatabase
  /\ storage = NoDatabase
  /\ ainit = [i \in InitIds |-> "idle"]
  /\ hook = HookInitial
  /\ \E configured \in BOOLEAN :
       ocr = [OcrIdle EXCEPT !.configured = configured]

NextOCR == performOCR

SpecOCR == InitOCR /\ [][NextOCR]_vars

\* ------------------------------------------------------------------------
\* useDatabase: initializeDatabase() run by the mount effect (call 1) and by
\* retryInitialization (the calls after it), over the SQLite service.
\* ------------------------------------------------------------------------

\* initializeDatabase up to its first await:
\*   setState(prev => ({ ...prev, isLoading: true, error: null }));
\*   await kanjiDatabaseService.initialize()
initializeDatabase_call(h) ==
  /\ hook.call[h] = "idle"
  /\ \A j \in InitIds : j < h => hook.call[j] # "idle"
  /\ init[h].pc = "idle"
  /\ hook' = [hook EXCEPT !.isLoading = TRUE, !.error = NoError,
                          !.call[h] = "initialize"]
  /\ init' = [init EXCEPT ![h].pc = "open"]
  /\ UNCHANGED <<storeVars, upd, lastUpd, calls, okCalls, prior, procVars,
                 request, response, catalog, database, storage, ainit, ocr>>

\* initialize() has resolved: const stats = await getDatabaseStats();
\* setState({ isLoading: false, isReady: true, error: null, stats }); when
\* getDatabaseStats throws, the catch below
initializeDatabase_stats(h) ==
  /\ hook.call[h] = "initialize"
  /\ init[h].pc = "done"
  /\ \E ok \in BOOLEAN :
       hook' = IF ok /\ db /\ tables
               THEN [hook EXCEPT !.isLoading = FALSE, !.isReady = TRUE,
                                 !.error = NoError,
                                 !.stats = getDatabaseStats(kanji).totalKanji,
                                 !.call[h] = "done"]
               ELSE [hook EXCEPT !.isLoading = FALSE, !.isReady = FALSE,
                                 !.error = "getDatabaseStats failed",
                                 !.stats = NULL, !.call[h] = "done"]
  /\ UNCHANGED <<storeVars, screenVars, procVars, request, response,
                 catalog, database, storage, ainit, ocr>>

\* initialize() has thrown: catch (error) { setState({ isLoading: false,
\* isReady: false, error: error.message, stats: null }) }
initializeDatabase_catch(h) ==
  /\ hook.call[h] = "initialize"
  /\ init[h].pc = "failed"
  /\ hook' = [hook EXCEPT !.isLoading = FALSE, !.isReady = FALSE,
                          !.error = "initialize failed", !.stats = NULL,
                          !.call[h] = "done"]
  /\ UNCHANGED <<storeVars, screenVars, procVars, request, response,
                 catalog, database, storage, ainit, ocr>>

initializeDatabase(h) ==
  \/ initializeDatabase_call(h)
  \/ initialize_open(h)
  \/ createTables(h)
  \/ checkAndSeedDatabase(h)
  \/ importKanjiJsonData_begin(h)
  \/ importKanjiJsonData_insert(h)
  \/ importKanjiJsonData_meta(h)
  \/ importKanjiJsonData_commit(h)
  \/ importKanjiJsonData_rollback(h)
  \/ initializeDatabase_stats(h)
  \/ initializeDatabase_catch(h)

NextHook == \E h \in InitIds : initializeDatabase(h)

SpecHook == Init /\ [][NextHook]_vars

\* ------------------------------------------------------------------------
\* Claims about the store (specification Spec).
\* ------------------------------------------------------------------------

InFlight(c) == \E u \in UpdIds : upd[u].pc = "run" /\ upd[u].ch = c

\* C1: once no updateKanjiTimesSeen(c) is in flight, the stored times seen
\* of every character c is its prior value plus the number of calls for c
\* that returned, whether the calls ran one after the other or overlapped.
C1_PriorPlusCalls ==
  \A c \in Chars :
    ~InFlight(c) => TimesSeen(kanji, c) = prior[c] + okCalls[c]

\* C4: every updateKanjiTimesSeen(c) that returns has raised the times seen
\* of c by exactly 1, from 0 to 1 when c had no exposure before, whether or
\* not c has a catalog entry.
C4_EachCallAddsOne ==
  [][\A u \in UpdIds :
       (upd[u].pc = "run" /\ upd'[u].pc = "done" /\ lastUpd'.res = "ok")
         => TimesSeen(kanji', upd[u].ch)
              = TimesSeen(kanji, upd[u].ch) + 1]_vars

\* C8: the step in which updateKanjiTimesSeen(c) runs its UPDATE leaves the
\* row of every character other than c as it was, whatever other calls are
\* in flight.
C8_OtherCharactersUntouched ==
  [][\A u \in UpdIds :
       (upd[u].pc = "run" /\ upd'[u].pc = "done")
         => \A d \in Chars \ {upd[u].ch} : kanji'[d] = kanji[d]]_vars

\* two calls for different characters that both have a row: one has just
\* returned and raised its counter while the other is still in flight
C8_Witness ==
  \E v \in UpdIds :
    /\ lastUpd.res = "ok"
    /\ upd[v].pc = "run" /\ upd[v].ch # lastUpd.ch
    /\ kanji[lastUpd.ch] # NULL /\ kanji[lastUpd.ch] >= 1
    /\ kanji[upd[v].ch] # NULL

\* C9: times seen is never negative, no step lowers the times seen of any
\* character, and no step removes an exposure (a times seen of 1 or more).
C9_NeverLowered ==
  [][\A c \in Chars :
       /\ TimesSeen(kanji, c) >= 0
       /\ TimesSeen(kanji', c) >= TimesSeen(kanji, c)]_vars

\* C19: when no initialize() is running the catalog is whole: it holds no
\* record of the dataset (so the next initialize() seeds it) or all of them.
C19_SeedingAllOrNothing ==
  (\A i \in InitIds : ~InitRunning(i))
    => SqlCount(kanji) \in {0, Cardinality(DatasetChars)}

\* ------------------------------------------------------------------------
\* Claims about initialize() called in sequence (specification SpecSeq).
\* ------------------------------------------------------------------------

\* C18: once an initialize() on the new store has returned, no step of a
\* later initialize() changes totalKanji (the number of rows of table
\* kanji, whose character column is UNIQUE): it is the same after the
\* second call as after the first.
C18_SecondInitializeKeepsTotal ==
  [][(\E j \in InitIds : init[j].pc = "done")
       => SqlCount(kanji') = SqlCount(kanji)]_vars

\* two calls have returned, the first of which seeded the new store
C18_Witness ==
  /\ init[1].pc = "done"
  /\ init[2].pc = "done"
  /\ SqlCount(kanji) = Cardinality(DatasetChars)

\* ------------------------------------------------------------------------
\* Claims about reads during initialize() (specification SpecRead).
\* ------------------------------------------------------------------------

\* C20: a read made while an initialize() is running is not served from a
\* missing table or from a catalog that is not fully seeded.
C20_NoReadBeforeSeeded ==
  (response.returned /\ request.fn = "getAllKanji" /\ response.running)
    => /\ response.error # "no such table"
       /\ response.error = "none" => response.value = DatasetChars

\* ------------------------------------------------------------------------
\* Claims about the processor (specification SpecProc).
\* ------------------------------------------------------------------------

MatchesOf(r, c) ==
  {results[r].foundKanji[p] : p \in {q \in 1..Len(results[r].foundKanji) :
                                       results[r].foundKanji[q].character = c}}

\* C2: no step of analyzeText changes table kanji.
C2_AnalysisLeavesStore ==
  [][an' # an => kanji' = kanji]_vars

\* an analysis has returned matches read from rows that hold an exposure
C2_Witness ==
  /\ linked
  /\ Len(results) >= 1
  /\ \E p \in 1..Len(results[1].foundKanji) :
       /\ results[1].foundKanji[p].meanings = MeaningsOf(Nichi)
       /\ results[1].foundKanji[p].timesSeen >= 1

\* C3: when a character c of times seen 0 was analysed and an
\* updateKnowledgeBank over a collection holding c has returned (nothing
\* else recording encounters), the times seen of c is 1, the first result
\* still shows c with timesSeen 0 and isNew, and every analysis called
\* after the update shows c with timesSeen 1 and not isNew.
C3_FreshAnalysisSeesUpdate ==
  \A c \in Chars :
    ( /\ prior[c] = 0
      /\ calls = 0
      /\ Len(results) >= 1
      /\ ~fresh[1]
      /\ MatchesOf(1, c) # {}
      /\ kb.pc = "idle"
      /\ kb.returned = "ok"
      /\ c \in kb.input )
    => /\ TimesSeen(kanji, c) = 1
       /\ \A m \in MatchesOf(1, c) : m.timesSeen = 0 /\ m.isNew
       /\ \A r \in 1..Len(results) :
            fresh[r] => \A m \in MatchesOf(r, c) :
                          m.timesSeen = 1 /\ ~m.isNew

\* C5: an updateKnowledgeBank call that has returned raised the times seen
\* of every distinct character of its collection by exactly 1, and of no
\* other character.
C5_OnePerDistinctCharacter ==
  (kb.pc = "idle" /\ kb.returned = "ok")
    => \A c \in Chars :
         kb.delta[c] = IF c \in kb.input THEN 1 ELSE 0

\* C6: a call during which the storage layer failed on an increment ends
\* with an error, for updateKanjiTimesSeen and for updateKnowledgeBank
\* alike, and every character is attempted once (no retry).
C6_FailureSurfaces ==
  /\ lastUpd.err => lastUpd.res = "threw"
  /\ (kb.pc = "idle" /\ kb.returned # "none")
       => /\ kb.failed # {} => kb.returned = "threw"
          /\ kb.updatedCount + Cardinality(kb.failed)
               <= Cardinality(kb.input)

C10_Partition ==
  \A r \in 1..Len(results) :
    LET res == results[r]
        InSeq(m, s) == \E p \in 1..Len(s) : s[p] = m
    IN /\ Len(res.newKanji) + Len(res.knownKanji) = Len(res.uniqueKanji)
       /\ CharsOf(res.newKanji) \cap CharsOf(res.knownKanji) = {}
       /\ \A p \in 1..Len(res.uniqueKanji) :
            InSeq(res.uniqueKanji[p], res.newKanji)
              # InSeq(res.uniqueKanji[p], res.knownKanji)

\* a result with a new and a known kanji
C10_Witness ==
  \E r \in 1..Len(results) :
    Len(results[r].newKanji) >= 1 /\ Len(results[r].knownKanji) >= 1

\* C11: in every result, every kanji occurrence of the text has its match,
\* and the match of a character without a catalog row has no meanings, no
\* readings, timesSeen 0 and isNew.
C11_UnresolvedIsEmpty ==
  \A r \in 1..Len(results) :
    LET res == results[r]
    IN /\ Len(res.foundKanji) = Len(extractKanjiCharacters(res.originalText))
       /\ \A p \in 1..Len(res.foundKanji) :
            LET m == res.foundKanji[p]
            IN kanji[m.character] = NULL
                 => /\ m.meanings = << >>
                    /\ m.readings = << >>
                    /\ m.timesSeen = 0
                    /\ m.isNew

RankedBefore(a, b) ==
  IF a.isNew # b.isNew THEN a.isNew
  ELSE IF (a.frequency = "") # (b.frequency = "") THEN a.frequency # ""
  ELSE a.character < b.character

\* every occurrence of a character carries the same match
SameSnapshot(s) ==
  \A p, q \in 1..Len(s) : s[p].character = s[q].character => s[p] = s[q]

IsPermutation(s, t) ==
  /\ Len(s) = Len(t)
  /\ \A m \in Matches :
       Cardinality({p \in 1..Len(s) : s[p] = m})
         = Cardinality({p \in 1..Len(t) : t[p] = m})

Paged(options, L, O) == Merge([limit |-> L, offset |-> O], options)

\* the pages at offsets O, O + L, O + 2L, ... until one is empty, joined
RECURSIVE PagesFrom(_, _, _)
PagesFrom(options, L, O) ==
  LET page == searchKanji(catalog, Paged(options, L, O)).kanji
  IN IF page = << >> THEN << >> ELSE page \o PagesFrom(options, L, O + L)

\* C14: for the filter of a search that returned, totalCount is the number
\* of matching rows and is the same for every limit >= 1 and offset >= 0,
\* and the pages at offsets 0, L, 2L, ... joined hold every matching row
\* once, by ascending stroke count and then ascending character.
C14_Pagination ==
  (response.returned /\ request.fn = "searchKanji"
     /\ response.error = "none")
    => LET options == request.options
           matching == {row \in catalog : whereClause(row, options)}
       IN /\ \A L \in 1..MaxLimit, O \in 0..MaxOffset :
               searchKanji(catalog, Paged(options, L, O)).totalCount
                 = Cardinality(matching)
          /\ (~Has(options, "limit") \/ options.limit >= 1)
               /\ (~Has(options, "offset") \/ options.offset >= 0)
               => response.value.totalCount = Cardinality(matching)
          /\ \A L \in 1..MaxLimit :
               LET all == PagesFrom(options, L, 0)
               IN /\ {all[p] : p \in 1..Len(all)} = matching
                  /\ Len(all) = Cardinality(matching)
                  /\ \A p \in 1..(Len(all) - 1) :
                       rowBefore(all[p], all[p + 1])

\* a search with limit 1 and offset 1 has returned the second of three
\* matching rows
C14_Witness ==
  /\ response.returned
  /\ request.fn = "searchKanji"
  /\ response.error = "none"
  /\ Has(request.options, "limit") /\ request.options.limit = 1
  /\ Has(request.options, "offset") /\ request.options.offset = 1
  /\ response.value.totalCount = 3
  /\ Len(response.value.kanji) = 1

Contains(str, q) ==
  \E p \in 1..(Len(str) - Len(q) + 1) : SubSeq(str, p, p + Len(q) - 1) = q

FoldCase(str) == [p \in 1..Len(str) |-> sqlFold(str[p])]

AnyOf(list, Test(_)) == \E p \in 1..Len(list) : Test(list[p])

\* as the claim reads a query: part of the character, of one meaning
\* whatever the case, or of one reading
QueryMatches(rec, q) ==
  LET InMeaning(m) == Contains(FoldCase(m), FoldCase(q))
      InReading(r) == Contains(r, q)
  IN \/ Contains(rec.character, q)
     \/ AnyOf(rec.meanings, InMeaning)
     \/ AnyOf(rec.onReadings, InReading)
     \/ AnyOf(rec.kunReadings, InReading)

FilterMatches(rec, options) ==
  /\ Has(options, "query") => QueryMatches(rec, options.query)
  /\ Has(options, "jlptLevel") => rec.jlptLevel = options.jlptLevel
  /\ Has(options, "strokeCount") => rec.strokeCount = options.strokeCount
  /\ Has(options, "frequency") => rec.frequency = options.frequency

\* C15: the rows a search counts are exactly the rows of the records whose
\* character, one meaning (whatever the case) or one reading contains the
\* query and that meet every filter that is present.
C15_MatchesExactly ==
  (response.returned /\ request.fn = "searchKanji"
     /\ response.error = "none")
    => LET expected == {rowOf(rec) : rec \in
                          {x \in searchData : rowOf(x) \in catalog
                              /\ FilterMatches(x, request.options)}}
       IN /\ response.value.totalCount = Cardinality(expected)
          /\ \A p \in 1..Len(response.value.kanji) :
               response.value.kanji[p] \in expected

\* C16: a search called with limit <= 0 or offset < 0 ends with the error
\* InvalidArgument.
C16_InvalidArgument ==
  (response.returned /\ request.fn = "searchKanji"
     /\ \/ (Has(request.options, "limit") /\ request.options.limit <= 0)
        \/ (Has(request.options, "offset") /\ request.options.offset < 0))
    => response.error = "InvalidArgument"

\* ------------------------------------------------------------------------
\* Claims about calculateDifficultyScore (specification SpecScore).
\* ------------------------------------------------------------------------

\* C17: the score of every result is an integer from 1 to 10, and it is 1
\* when the result has no kanji occurrence.
C17_ScoreRange ==
  (response.returned /\ request.fn = "calculateDifficultyScore")
    => /\ response.value \in 1..10
       /\ request.analysisResult.stats.kanjiCount = 0 => response.value = 1

\* a text of kanji only, all new and of the hardest level: the score is
\* held at 10
C17_Witness ==
  /\ response.returned
  /\ request.fn = "calculateDifficultyScore"
  /\ request.analysisResult.stats.kanjiCount
       = request.analysisResult.stats.totalCharacters
  /\ request.analysisResult.stats.kanjiCount > 0
  /\ request.analysisResult.stats.newKanjiCount
       = request.analysisResult.stats.uniqueKanjiCount
  /\ jlptLevels(request.analysisResult.newKanji) = <<1>>
  /\ response.value = 10

\* ------------------------------------------------------------------------
\* Claims about concurrent initialize() calls (specification Spec).
\* ------------------------------------------------------------------------

\* the initialize() calls whose importKanjiJsonData is executing: entered
\* from checkAndSeedDatabase and not yet returned or thrown
Importing ==
  {i \in InitIds :
     init[i].pc \in {"begin", "insert", "meta", "commit", "rollback"}}

\* C21: when initialize() is invoked again while an earlier initialize()
\* has not finished, at most one execution of the dataset import is in
\* progress at any time.
C21_OneImportAtATime ==
  Cardinality(Importing) <= 1

\* ------------------------------------------------------------------------
\* Claims about the statistics of the services (specification SpecStats).
\* ------------------------------------------------------------------------

\* the records a getAll() of the same state returns
RecordsOfGetAll == {c \in Chars : kanji[c] # NULL}

\* C22: the totalKanji a getStats() returns is the number of records a
\* getAll() of the same state returns, for the SQLite service at every read
\* that succeeds and for the AsyncStorage service in every state in which
\* it holds a database.
C22_TotalKanjiIsCatalogSize ==
  [][/\ (getDatabaseStats_call /\ response'.error = "none")
          => response'.value.totalKanji = Cardinality(RecordsOfGetAll)
     /\ database'.present
          => database'.totalKanji = Cardinality(database'.kanji)]_vars

\* the SQLite service initialized and seeded, and its statistics read
C22_Witness ==
  /\ \E i \in InitIds : init[i].pc = "done"
  /\ request.fn = "getDatabaseStats"
  /\ response.returned
  /\ response.error = "none"
  /\ response.value.totalKanji = Cardinality(DatasetChars)

\* the AsyncStorage service initialized and its statistics read
C22_WitnessAsync ==
  /\ \E a \in InitIds : ainit[a] = "done"
  /\ request.fn = "AsyncKanjiService.getDatabaseStats"
  /\ response.error = "none"
  /\ response.value.totalKanji = Cardinality(initialKanji)
\* ------------------------------------------------------------------------
\* Claims about getMultipleKanji (specification SpecMulti).
\* ------------------------------------------------------------------------

\* the characters of the catalog among those requested
Requested ==
  {row.character : row \in sqlIn(catalog, request.characters)}

\* C23: getMultipleKanji returns exactly the catalog records of the
\* requested characters that exist, each once, ordered by ascending stroke
\* count and, among records of equal stroke count, by ascending character
\* code point.
C23_ExistingRecordsInOrder ==
  (response.returned /\ request.fn = "getMultipleKanji"
     /\ response.error = "none")
    => LET v == response.value
       IN /\ {v[p].character : p \in 1..Len(v)} = Requested
          /\ Len(v) = Cardinality(Requested)
          /\ \A p, q \in 1..Len(v) :
               p < q =>
                 \/ v[p].strokeCount < v[q].strokeCount
                 \/ /\ v[p].strokeCount = v[q].strokeCount
                    /\ v[p].character[1] < v[q].character[1]

\* ------------------------------------------------------------------------
\* Claims about cleanText (specification SpecClean).
\* ------------------------------------------------------------------------

\* what analyzeText classifies as kanji, hiragana or katakana
isJapanese(c) == isKanji(c) \/ isHiragana(c) \/ isKatakana(c)

\* the characters analyzeText finds as kanji, in order
KanjiFound(text) ==
  LET found == extractKanjiCharacters(text)
  IN [p \in 1..Len(found) |-> found[p].character]

\* C24: cleanText removes no kanji, hiragana or katakana: the sequence of
\* these characters is the same in cleanText(text) as in text, and
\* analyzeText finds the same kanji in the same order in both.
C24_CleanTextKeepsJapanese ==
  (response.returned /\ request.fn = "cleanText")
    => /\ SelectSeq(response.value, isJapanese)
            = SelectSeq(request.text, isJapanese)
       /\ KanjiFound(response.value) = KanjiFound(request.text)

\* a text with a Latin letter between a katakana and a kanji was cleaned:
\* the letter is gone, the katakana and the kanji are kept
C24_Witness ==
  /\ request.fn = "cleanText"
  /\ request.text = <<Ka, LowerA, Nichi, Space, Ha>>
  /\ response.returned
  /\ response.value = <<Ka, Nichi, Space, Ha>>

\* C25: the output of cleanText has no two consecutive whitespace
\* characters, and every whitespace character of it is a space.
C25_NoWhitespaceRun ==
  (response.returned /\ request.fn = "cleanText")
    => LET v == response.value
       IN /\ \A p \in 1..Len(v) : isWhitespace(v[p]) => v[p] = Space
          /\ \A p \in 1..(Len(v) - 1) :
               ~(isWhitespace(v[p]) /\ isWhitespace(v[p + 1]))

\* ------------------------------------------------------------------------
\* Claims about the statistics and the occurrences of one analysis
\* (specification SpecProc).
\* ------------------------------------------------------------------------

RECURSIVE KnownLevels(_)
KnownLevels(newKanji) ==
  IF newKanji = << >> THEN << >>
  ELSE (IF "jlptLevel" \in DOMAIN Head(newKanji)
           /\ Head(newKanji).jlptLevel # NULL
        THEN <<Head(newKanji).jlptLevel>> ELSE << >>)
         \o KnownLevels(Tail(newKanji))

RECURSIVE Sum(_)
Sum(levels) ==
  IF levels = << >> THEN 0 ELSE Head(levels) + Sum(Tail(levels))

\* round(1 + 3*kanjiCount/totalCharacters + 4*newKanjiCount/uniqueKanjiCount
\*         + 0.5*(6 - avgExamLevel)) clamped to 1..10, in whole numbers:
\* the sum is num / den and round(x) is the integer r with
\* r - 1/2 <= x < r + 1/2
ExpectedScore(result) ==
  LET levels == KnownLevels(result.newKanji)
      m == IF levels = << >> THEN 1 ELSE Len(levels)
      total == IF levels = << >> THEN 3 ELSE Sum(levels)
      T == result.stats.totalCharacters
      u == result.stats.uniqueKanjiCount
      den == 2 * T * u * m
      num == 2 * T * u * m
               + 6 * result.stats.kanjiCount * u * m
               + 8 * result.stats.newKanjiCount * T * m
               + (6 * m - total) * T * u
      r == CHOOSE x \in 0..20 :
             (2 * x - 1) * den <= 2 * num /\ 2 * num < (2 * x + 1) * den
  IN IF r < 1 THEN 1 ELSE IF r > 10 THEN 10 ELSE r

\* C27: for a result with at least one kanji occurrence the score is the
\* rounded, clamped sum with avgExamLevel the mean over the newKanji
\* entries of known level, 3 when there is none.
C27_ScoreFormula ==
  (response.returned /\ request.fn = "calculateDifficultyScore"
     /\ request.analysisResult.stats.kanjiCount > 0)
    => response.value = ExpectedScore(request.analysisResult)

\* ------------------------------------------------------------------------
\* Claims about the image-analysis flow (specification SpecOCR).
\* ------------------------------------------------------------------------

\* C29: a run of performOCR calls updateKnowledgeBank at most once, and
\* only after its analyzeText has returned a result with at least one
\* kanji occurrence; a run whose text extraction fails or yields no text
\* calls neither analyzeText nor updateKnowledgeBank and ends with the
\* error set and loading cleared.
C29_UpdateOnlyAfterAnalysis ==
  /\ ocr.updated <= 1
  /\ ocr.analyzed <= 1
  /\ an.pc # "idle" => ocr.updated = 0
  /\ kb.pc # "idle" => ocr.pc = "update"
  /\ ocr.updated = 1
       => /\ ocr.analyzed = 1
          /\ ocr.analysisResult = Len(results)
          /\ Len(results[Len(results)].foundKanji) > 0
          /\ kb.input = CharsOf(results[Len(results)].foundKanji)
  /\ (ocr.pc = "done" /\ ocr.ocrResult \in {"not configured", "failed",
                                            "empty"})
       => /\ ocr.analyzed = 0
          /\ ocr.updated = 0
          /\ ocr.error
          /\ ~ocr.loading

\* a first run analyzed a text with kanji and updated the knowledge bank;
\* the run after it got no text and ended in the error state
C29_Witness ==
  /\ ocr.pc = "done"
  /\ ocr.ocrResult = "empty"
  /\ ocr.error
  /\ ~ocr.loading
  /\ Len(results) = 1
  /\ Len(results[1].foundKanji) > 0
  /\ kb.returned = "ok"
  /\ kb.n = 1

\* ------------------------------------------------------------------------
\* Claims about the useDatabase hook (specification SpecHook).
\* ------------------------------------------------------------------------

\* C30: in every state of the hook, whatever the interleaving of the first
\* initializeDatabase() with those of retryInitialization, isReady is true
\* only if isLoading is false, error is null and stats is not null; and an
\* initialize() that failed leaves isReady false with the error set.
C30_ReadyOnlyWhenLoaded ==
  [][/\ hook'.isReady => /\ ~hook'.isLoading
                         /\ hook'.error = NoError
                         /\ hook'.stats # NULL
     /\ (\E h \in InitIds : initializeDatabase_catch(h))
          => ~hook'.isReady /\ hook'.error # NoError]_vars

====
